---------------------------- MODULE Spec2Model ----------------------------
(***************************************************************************)
(* The DocumentSigner component of src/src/components/ChatScreen.tsx       *)
(* (lines 432-850): its React state, the handlers handleFileSelect,        *)
(* handleSignatureFileSelect, signDocument and verifyDocument, and the     *)
(* collaborators they call.  DigitalSigner (../utils/signing) and the      *)
(* CryptoContext (../context/CryptoContext) are not among the source       *)
(* files; they are modelled from spec.md sections 4.1-4.7 and 6.           *)
(*                                                                         *)
(* An async handler is a call record in `calls`: the values its closure    *)
(* captured when it was invoked, and the await it is suspended at.  Each   *)
(* action is one synchronous run of handler code between two awaits.       *)
(***************************************************************************)
EXTENDS Integers, Sequences, FiniteSets, Bags, TLC

\* ------------------------------------------------------------------ bounds
MaxTime == 1
MaxCalls == 2

\* --------------------------------------------------------------- option type
\* null | x of the source: <<>> | <<x>>.
Null == <<>>
Some(x) == <<x>>
Get(o) == o[1]

VARIABLES
  now,                \* Date.now(), in units of the model
  signingKeyPair,     \* crypto.signingKeyPair
  certificate,        \* crypto.certificate
  selectedFile,       \* useState<File | null>
  signatureFile,      \* useState<File | null>
  documentSignature,  \* useState<DocumentSignature | null>
  verificationResult, \* useState<boolean | null>: "null", "true", "false"
  isProcessing,       \* useState(false)
  error,              \* useState<string>('')
  downloads,          \* the .sig files handed to the browser for download
  calls,              \* in-flight invocations of signDocument / verifyDocument
  started,            \* number of invocations so far
  last,               \* history: the invocation the last step ended, if any
  reported,           \* history: (cause, report) of the finished verify calls
  isPaired,           \* useChat().isPaired
  left,               \* handleLeave has called leaveChat() and onLeave()
  messageInput,       \* useState('')
  isRecording,        \* useState(false)
  audioError,         \* useState<string>('')
  mediaRecorderRef,   \* useRef<MediaRecorder | null>
  audioStreamRef,     \* useRef<MediaStream | null>
  audioChunksRef,     \* useRef<Blob[]>: the recorders whose data it holds
  acquired,           \* number of streams getUserMedia has handed out
  liveStreams,        \* the streams with a track that is not stopped
  recorders,          \* the MediaRecorders created, by stream: their state
  starts,             \* startRecording calls suspended at getUserMedia
  pending,            \* bag of suspended continuations (send, FileReader)
  clicks,             \* number of record-button clicks so far
  sent                \* history: the sendMessage calls made

docVars == << now, signingKeyPair, certificate, selectedFile, signatureFile,
              documentSignature, verificationResult, isProcessing, error,
              downloads, calls, started, last, reported >>

chatVars == << isPaired, left, messageInput, isRecording, audioError,
               mediaRecorderRef, audioStreamRef, audioChunksRef, acquired,
               liveStreams, recorders, starts, pending, clicks, sent >>

vars == << docVars, chatVars >>

\* ------------------------------------------------------------- documents
\* A File handed over by the file input: a name and its bytes.  Reading a
\* File can fail at any later time (it was removed or became unreadable).
DocA == [name |-> "a", bytes |-> <<1, 2>>]
DocB == [name |-> "b", bytes |-> <<1, 3>>]
Docs == {DocA, DocB}

\* Keypair 1 is the one this session generates; 2 is another party's.
Keys == {1, 2}
SessionKey == CHOOSE k \in Keys : \A j \in Keys : k <= j
Nonces == {0, 1}
Durations == {1}
Subjects == {"alice"}

\* ------------------------------------------------- DocumentHasher (4.3)
RECURSIVE Digest(_)
Digest(bytes) ==
  IF bytes = <<>> THEN 1
  ELSE (Digest(Tail(bytes)) * 31 + Head(bytes) + 1) % 251

\* hash(bytes): a hex string of fixed length 64, here its length and value.
Hash(bytes) == [len |-> 64, val |-> Digest(bytes)]

\* ------------------------------------------------- KeyPairProvider (4.1)
\* The exportable public part of keypair k, as raw key material.
PublicKeyOf(k) == [curve |-> "P-256", point |-> k]
BadKeyEncoding == [curve |-> "none", point |-> 0]

\* importPublicKey(bytes) -> KeyHandle; fails with InvalidKeyEncodingError.
CanImport(bytes) == bytes.curve = "P-256" /\ bytes.point \in Keys
ImportPublicKey(bytes) == bytes.point

\* ECDSA over the hash bytes; the nonce makes the signature non-deterministic.
EcdsaSign(k, h, n) == [by |-> k, over |-> h.val, nonce |-> n]
EcdsaVerify(handle, h, sig) == sig.by = handle /\ sig.over = h.val

\* -------------------------------------- IdentityCertificateAuthority (4.2)
Issue(subject, k, t, duration) ==
  [subject |-> subject, publicKey |-> PublicKeyOf(k),
   issuedAt |-> t, expiresAt |-> t + duration]

\* ------------------------------------------- CertificateValidator (4.6)
CertStructureOk(cert) == cert.subject # "" /\ CanImport(cert.publicKey)
\* Mutant: only the end of the window is checked.
CertTimeOk_untilExpiry(cert, t) == t <= cert.expiresAt

CertTimeOk(cert, t) == cert.issuedAt <= t /\ t <= cert.expiresAt
verifyCertificate(cert, t) == CertStructureOk(cert) /\ CertTimeOk(cert, t)

\* ------------------------------------------------- DocumentSigner (4.4)
SigFields == {"documentHash", "signature", "certificate", "timestamp"}
CertFields == {"subject", "publicKey", "issuedAt", "expiresAt"}

DigitalSigner_signDocument(doc, privateKey, cert, t, n) ==
  [documentHash |-> Hash(doc.bytes),
   signature |-> EcdsaSign(privateKey, Hash(doc.bytes), n),
   certificate |-> cert,
   timestamp |-> t]

\* ----------------------------------------------- SignatureFileCodec (4.5)
\* The file is the canonical list of (field name, value) pairs.
FieldOrder == << "documentHash", "signature", "certificate", "timestamp" >>

createSignatureFile(sig) ==
  [i \in 1..Len(FieldOrder) |-> << FieldOrder[i], sig[FieldOrder[i]] >>]

FileFields(file) == {file[i][1] : i \in 1..Len(file)}
FieldOf(file, f) == file[CHOOSE i \in 1..Len(file) : file[i][1] = f][2]

\* Whether decode accepts the file: every required field present, the hash
\* exactly 64 hex characters, the certificate with its four fields.
Decodable(file) ==
  /\ SigFields \subseteq FileFields(file)
  /\ FieldOf(file, "documentHash").len = 64
  /\ DOMAIN FieldOf(file, "certificate") = CertFields

\* parseSignatureFile(file): the DocumentSignature, or null.
parseSignatureFile(file) ==
  IF Decodable(file.content)
  THEN Some([f \in SigFields |-> FieldOf(file.content, f)])
  ELSE Null

\* ------------------------------------------------ SignatureVerifier (4.7)
\* Stages 3 and 4: recompute the hash, compare, then ECDSA-verify.
HashMatches(doc, sig) == Hash(doc.bytes) = sig.documentHash
DigitalSigner_verifyDocumentSignature(doc, sig, handle) ==
  /\ HashMatches(doc, sig)
  /\ EcdsaVerify(handle, Hash(doc.bytes), sig.signature)

\* ------------------------------------------------------- signature files
\* Files a user can pick besides the session's own downloads: another
\* party's signature over DocA, whose certificate expires when the clock
\* first advances, and damaged or forged variants of it.
OtherCert(k) ==
  [subject |-> "bob", publicKey |-> PublicKeyOf(k),
   issuedAt |-> 0, expiresAt |-> 0]

\* The other party's certificate for the next instant: not yet valid when
\* the session starts.
LaterCert(k) ==
  [subject |-> "bob", publicKey |-> PublicKeyOf(k),
   issuedAt |-> 1, expiresAt |-> 1]

Forged(hashDoc, signedDoc, k, cert) ==
  [documentHash |-> Hash(hashDoc.bytes),
   signature |-> EcdsaSign(k, Hash(signedDoc.bytes), 0),
   certificate |-> cert,
   timestamp |-> 0]

Without(content, f) == SelectSeq(content, LAMBDA p : p[1] # f)

\* A File picked as signature file: its name and its content.
SigName(doc) == << doc.name, ".sig" >>
FileOf(name, content) == [name |-> name, content |-> content]

FileOther ==
  FileOf(SigName(DocA), createSignatureFile(Forged(DocA, DocA, 2, OtherCert(2))))
FileNoSignature ==
  FileOf(<< "nosig", ".sig" >>, Without(FileOther.content, "signature"))
FileShortHash ==
  FileOf(<< "short", ".sig" >>,
         createSignatureFile([Forged(DocA, DocA, 2, OtherCert(2))
                                 EXCEPT !.documentHash.len = 63]))
\* Signed with this session's key, presented with the other party's certificate.
FileCrossKey ==
  FileOf(<< "cross", ".sig" >>,
         createSignatureFile(Forged(DocA, DocA, SessionKey, LaterCert(2))))
FileBadKey ==
  FileOf(<< "badkey", ".sig" >>,
         createSignatureFile(Forged(DocA, DocA, 2,
                                [OtherCert(2) EXCEPT !.publicKey = BadKeyEncoding])))

CraftedFiles ==
  { FileOther, FileNoSignature, FileShortHash, FileCrossKey, FileBadKey }

SigFilesAvailable == CraftedFiles \cup downloads

\* ------------------------------------------------- the component's state
\* What an invocation can change: the four pieces of React state written by
\* signDocument / verifyDocument, and the downloads it triggers.
St(ds, vr, ip, er, dl) ==
  [documentSignature |-> ds, verificationResult |-> vr,
   isProcessing |-> ip, error |-> er, downloads |-> dl]

Cur == St(documentSignature, verificationResult, isProcessing, error, downloads)

SetSt(st) ==
  /\ documentSignature' = st.documentSignature
  /\ verificationResult' = st.verificationResult
  /\ isProcessing' = st.isProcessing
  /\ error' = st.error
  /\ downloads' = st.downloads

ToResult(b) == IF b THEN "true" ELSE "false"

\* ---------------------------------------------------- signDocument: effects
sign_noFile(st) == [st EXCEPT !.error = "Please select a file to sign"]

\* Mutant: the guard clears the stored signature as it reports.
sign_noKey_clears(st) ==
  [st EXCEPT !.error = "Signing key not available. Please refresh and try again.",
             !.documentSignature = Null]

sign_noKey(st) ==
  [st EXCEPT !.error = "Signing key not available. Please refresh and try again."]

sign_noCert(st) ==
  [st EXCEPT !.error = "Digital certificate not available. Please ensure you have set a username."]

sign_begin(st) == [st EXCEPT !.isProcessing = TRUE, !.error = ""]

\* Mutant: the file is built from the `documentSignature` state, which still
\* holds the value of the last render.
sign_resolved_stale(st, doc, signature) ==
  [st EXCEPT !.documentSignature = Some(signature),
             !.downloads = @ \cup {FileOf(SigName(doc),
                                     IF st.documentSignature = Null THEN <<>>
                                     ELSE createSignatureFile(Get(st.documentSignature)))},
             !.isProcessing = FALSE]

\* The try block after the await, then finally.
sign_resolved(st, doc, signature) ==
  [st EXCEPT !.documentSignature = Some(signature),
             !.downloads = @ \cup {FileOf(SigName(doc),
                                          createSignatureFile(signature))},
             !.isProcessing = FALSE]

\* Mutant: the download is triggered on the failure path as well.
sign_rejected_emits(st) ==
  [st EXCEPT !.error = "Failed to sign document: HashingError",
             !.downloads = @ \cup {FileOf(<< "partial", ".sig" >>, <<>>)},
             !.isProcessing = FALSE]

\* catch, then finally.
sign_rejected(st) ==
  [st EXCEPT !.error = "Failed to sign document: HashingError",
             !.isProcessing = FALSE]

\* -------------------------------------------------- verifyDocument: effects
verify_noFiles(st) ==
  [st EXCEPT !.error = "Please select both a document and its signature file"]

verify_begin(st) == [st EXCEPT !.isProcessing = TRUE, !.error = ""]

\* parseSignatureFile returned null: the early return, then finally.
verify_malformed(st) ==
  [st EXCEPT !.error = "Invalid signature file format",
             !.isProcessing = FALSE]

\* verifyCertificate returned false: the early return, then finally.
verify_certInvalid(st) ==
  [st EXCEPT !.error = "Invalid or expired certificate",
             !.verificationResult = "false",
             !.isProcessing = FALSE]

\* Mutant: the result of verifyDocumentSignature is not looked at.
verify_checked_always(st, isValid, parsedSignature) ==
  [st EXCEPT !.verificationResult = "true",
             !.documentSignature = Some(parsedSignature),
             !.isProcessing = FALSE]

\* verifyDocumentSignature returned isValid, then finally.
verify_checked(st, isValid, parsedSignature) ==
  [st EXCEPT !.verificationResult = ToResult(isValid),
             !.documentSignature = Some(parsedSignature),
             !.isProcessing = FALSE]

\* Mutant: no catch; the rejection leaves the handler.
verify_uncaught(st) == st

\* catch, then finally.
verify_caught(st) ==
  [st EXCEPT !.error = "Failed to verify document. Please check your files and try again.",
             !.verificationResult = "false",
             !.isProcessing = FALSE]

\* ----------------------------------------------------------- invocations
\* `calls` is the bag of suspended invocations: two invocations that captured
\* the same values and wait at the same await are alike.
InFlight == BagToSet(calls)

NewCall(kind, pc) ==
  [kind |-> kind, pc |-> pc,
   doc |-> Get(selectedFile),
   sigFile |-> IF kind = "verify" THEN signatureFile ELSE Null,
   key |-> IF kind = "sign" THEN signingKeyPair ELSE Null,
   cert |-> IF kind = "sign" THEN certificate ELSE Null,
   parsed |-> Null, returned |-> Null, checkedAt |-> -1, handle |-> Null,
   trace |-> <<>>]

\* The entry an invocation leaves in `last` in the step that ends it: what
\* it captured, the component's state before that step, and how many other
\* invocations were suspended then.
Entry(c, outcome) ==
  [kind |-> c.kind, outcome |-> outcome, doc |-> Some(c.doc),
   sigFile |-> c.sigFile, key |-> c.key, cert |-> c.cert,
   parsed |-> c.parsed, returned |-> c.returned,
   checkedAt |-> c.checkedAt, handle |-> c.handle,
   before |-> Cur, pending |-> BagCardinality(calls) - 1,
   trace |-> c.trace]

\* An invocation that ends in the synchronous run it began in.
Immediate(kind, outcome) ==
  [kind |-> kind, outcome |-> outcome,
   doc |-> selectedFile, sigFile |-> signatureFile,
   key |-> signingKeyPair, cert |-> certificate,
   parsed |-> Null, returned |-> Null, checkedAt |-> -1, handle |-> Null,
   before |-> Cur, pending |-> BagCardinality(calls),
   trace |-> <<>>]

\* Why a verify call ended as it did, read off the path it took.
Cause(e, st) ==
  CASE e.outcome = "FileMalformed" -> "FileMalformed"
    [] e.outcome = "CertificateInvalid" ->
         IF CertStructureOk(Get(e.parsed).certificate)
         THEN "CertificateExpired" ELSE "CertificateMalformed"
    [] e.outcome = "Checked" ->
         IF ~HashMatches(Get(e.doc), Get(e.parsed)) THEN "DocumentTampered"
         ELSE IF st.verificationResult = "true" THEN "Valid"
         ELSE "SignatureInvalid"
    [] OTHER -> "Error"

\* What the caller of a verify call is given: the result flag and the message.
Report(st) == << st.verificationResult, st.error >>

Begin(kind, pc) ==
  /\ calls' = calls (+) SetToBag({NewCall(kind, pc)})
  /\ last' = Null
  /\ UNCHANGED chatVars
  /\ UNCHANGED reported

EndNow(kind, outcome) ==
  /\ last' = Some(Immediate(kind, outcome))
  /\ UNCHANGED << calls, reported >>
  /\ UNCHANGED chatVars

\* Invocation c goes on as d, suspended at its next await.
Step(c, d) ==
  /\ calls' = (calls (-) SetToBag({c})) (+) SetToBag({d})
  /\ last' = Null
  /\ UNCHANGED chatVars
  /\ UNCHANGED reported

\* Invocation c, by now d, ends; post is the component's state it leaves.
End(c, d, outcome, post) ==
  /\ last' = Some(Entry(d, outcome))
  /\ calls' = calls (-) SetToBag({c})
  /\ UNCHANGED chatVars
  /\ reported' =
       IF d.kind = "verify"
       THEN reported \cup {<< Cause(Entry(d, outcome), post), Report(post) >>}
       ELSE reported

Ran(c, stage) == [c EXCEPT !.trace = Append(@, stage)]

\* ------------------------------------------------------------------- Init
Init ==
  /\ now = 0
  /\ signingKeyPair = Null
  /\ certificate = Null
  /\ selectedFile = Null
  /\ signatureFile = Null
  /\ documentSignature = Null
  /\ verificationResult = "null"
  /\ isProcessing = FALSE
  /\ error = ""
  /\ downloads = {}
  /\ calls = EmptyBag
  /\ started = 0
  /\ last = Null
  /\ reported = {}
  /\ isPaired = FALSE
  /\ left = FALSE
  /\ messageInput = ""
  /\ isRecording = FALSE
  /\ audioError = ""
  /\ mediaRecorderRef = Null
  /\ audioStreamRef = Null
  /\ audioChunksRef = {}
  /\ acquired = 0
  /\ liveStreams = {}
  /\ recorders = << >>
  /\ starts = 0
  /\ pending = EmptyBag
  /\ clicks = 0
  /\ sent = {}

\* ---------------------------------------------------------------- session
Tick ==
  /\ now < MaxTime
  /\ now' = now + 1
  /\ UNCHANGED << signingKeyPair, certificate, selectedFile, signatureFile,
                  documentSignature, verificationResult, isProcessing, error,
                  downloads, calls, started, reported >>
  /\ last' = Null
  /\ UNCHANGED chatVars

\* KeyPairProvider.generate at session start.
GenerateKeyPair ==
  /\ now = 0
  /\ signingKeyPair = Null
  /\ signingKeyPair' = Some(SessionKey)
  /\ UNCHANGED << now, certificate, selectedFile, signatureFile,
                  documentSignature, verificationResult, isProcessing, error,
                  downloads, calls, started, reported >>
  /\ last' = Null
  /\ UNCHANGED chatVars

\* IdentityCertificateAuthority.issue once the user has set a name.
IssueCertificate ==
  /\ now = 0
  /\ signingKeyPair # Null
  /\ certificate = Null
  /\ \E s \in Subjects, d \in Durations :
       certificate' = Some(Issue(s, Get(signingKeyPair), now, d))
  /\ UNCHANGED << now, signingKeyPair, selectedFile, signatureFile,
                  documentSignature, verificationResult, isProcessing, error,
                  downloads, calls, started, reported >>
  /\ last' = Null
  /\ UNCHANGED chatVars

\* ---------------------------------------------------------- file inputs
handleFileSelect ==
  /\ \E file \in {Null} \cup {Some(d) : d \in Docs} :
       IF file # Null
       THEN /\ selectedFile' = file
            /\ error' = ""
            /\ verificationResult' = "null"
            /\ documentSignature' = Null
       ELSE UNCHANGED << selectedFile, error, verificationResult,
                         documentSignature >>
  /\ UNCHANGED << now, signingKeyPair, certificate, signatureFile,
                  isProcessing, downloads, calls, started, reported >>
  /\ last' = Null
  /\ UNCHANGED chatVars

handleSignatureFileSelect ==
  /\ \E file \in {Null} \cup {Some(f) : f \in SigFilesAvailable} :
       IF file # Null
       THEN /\ signatureFile' = file
            /\ error' = ""
       ELSE UNCHANGED << signatureFile, error >>
  /\ UNCHANGED << now, signingKeyPair, certificate, selectedFile,
                  documentSignature, verificationResult, isProcessing,
                  downloads, calls, started, reported >>
  /\ last' = Null
  /\ UNCHANGED chatVars

\* ----------------------------------------------------------- signDocument
\* The synchronous part, up to the await.
signDocument ==
  /\ started < MaxCalls
  /\ started' = started + 1
  /\ IF selectedFile = Null
     THEN SetSt(sign_noFile(Cur)) /\ EndNow("sign", "NoFile")
     ELSE IF signingKeyPair = Null
     THEN SetSt(sign_noKey(Cur)) /\ EndNow("sign", "KeyUnavailable")
     ELSE IF certificate = Null
     THEN SetSt(sign_noCert(Cur)) /\ EndNow("sign", "CertUnavailable")
     ELSE SetSt(sign_begin(Cur)) /\ Begin("sign", "signing")
  /\ UNCHANGED << now, signingKeyPair, certificate, selectedFile, signatureFile >>

\* Mutant: a certificate is issued for the call instead of the session's.
SignerCertOf_issued(c) == Issue("alice", Get(c.key), now, 1)

\* The certificate handed to DigitalSigner.signDocument: crypto.certificate
\* as the closure holds it.
SignerCertOf(c) == Get(c.cert)

\* DigitalSigner.signDocument resolved.
signDocument_resolved(c) ==
  /\ c.kind = "sign"
  /\ c.pc = "signing"
  /\ \E n \in Nonces :
       LET signature == DigitalSigner_signDocument(c.doc, Get(c.key),
                                                   SignerCertOf(c), now, n)
           d == [Ran(c, "sign") EXCEPT !.returned = Some(signature)]
           post == sign_resolved(Cur, c.doc, signature)
       IN  SetSt(post) /\ End(c, d, "Signed", post)
  /\ UNCHANGED << now, signingKeyPair, certificate, selectedFile,
                  signatureFile, started >>

\* DigitalSigner.signDocument rejected (HashingError on unreadable input).
signDocument_rejected(c) ==
  /\ c.kind = "sign"
  /\ c.pc = "signing"
  /\ SetSt(sign_rejected(Cur))
  /\ End(c, c, "SignFailed", sign_rejected(Cur))
  /\ UNCHANGED << now, signingKeyPair, certificate, selectedFile,
                  signatureFile, started >>

\* --------------------------------------------------------- verifyDocument
\* The synchronous part, up to the first await.
verifyDocument ==
  /\ started < MaxCalls
  /\ started' = started + 1
  /\ IF selectedFile = Null \/ signatureFile = Null
     THEN SetSt(verify_noFiles(Cur))
          /\ EndNow("verify", "NoFiles")
     ELSE SetSt(verify_begin(Cur)) /\ Begin("verify", "parse")
  /\ UNCHANGED << now, signingKeyPair, certificate, selectedFile, signatureFile >>

\* After `await DigitalSigner.parseSignatureFile(signatureFile)`.
verifyDocument_parsed(c) ==
  /\ c.kind = "verify"
  /\ c.pc = "parse"
  /\ LET parsedSignature == parseSignatureFile(Get(c.sigFile))
         d == [Ran(c, "decode") EXCEPT !.parsed = parsedSignature]
     IN  IF parsedSignature = Null
         THEN SetSt(verify_malformed(Cur))
              /\ End(c, d, "FileMalformed", verify_malformed(Cur))
         ELSE Step(c, [d EXCEPT !.pc = "cert"])
              /\ UNCHANGED << documentSignature, verificationResult,
                              isProcessing, error, downloads >>
  /\ UNCHANGED << now, signingKeyPair, certificate, selectedFile,
                  signatureFile, started >>

\* Mutant: the session's own certificate is validated, not the file's.
CertOf_session(c) ==
  IF certificate # Null THEN Get(certificate) ELSE Get(c.parsed).certificate

\* The certificate handed to crypto.verifyCertificate.
CertOf(c) == Get(c.parsed).certificate

\* Mutant: the invalid-certificate branch reports and does not return.
verifyDocument_certChecked_noReturn(c) ==
  /\ c.kind = "verify"
  /\ c.pc = "cert"
  /\ LET isCertValid == verifyCertificate(CertOf(c), now)
         d == [Ran(c, "certificate") EXCEPT !.checkedAt = now]
     IN  /\ Step(c, [d EXCEPT !.pc = "import"])
         /\ IF ~isCertValid
            THEN SetSt([Cur EXCEPT !.error = "Invalid or expired certificate",
                                   !.verificationResult = "false"])
            ELSE UNCHANGED << documentSignature, verificationResult,
                              isProcessing, error, downloads >>
  /\ UNCHANGED << now, signingKeyPair, certificate, selectedFile,
                  signatureFile, started >>

\* After `await crypto.verifyCertificate(parsedSignature.certificate)`.
verifyDocument_certChecked(c) ==
  /\ c.kind = "verify"
  /\ c.pc = "cert"
  /\ LET isCertValid == verifyCertificate(CertOf(c), now)
         d == [Ran(c, "certificate") EXCEPT !.checkedAt = now]
     IN  IF ~isCertValid
         THEN SetSt(verify_certInvalid(Cur))
              /\ End(c, d, "CertificateInvalid", verify_certInvalid(Cur))
         ELSE Step(c, [d EXCEPT !.pc = "import"])
              /\ UNCHANGED << documentSignature, verificationResult,
                              isProcessing, error, downloads >>
  /\ UNCHANGED << now, signingKeyPair, certificate, selectedFile,
                  signatureFile, started >>

\* Mutant: the session's own public key is imported, not the certificate's.
KeyOf_session(c) ==
  IF signingKeyPair # Null THEN PublicKeyOf(Get(signingKeyPair))
  ELSE Get(c.parsed).certificate.publicKey

\* The key bytes handed to crypto.importPublicKey.
KeyOf(c) == Get(c.parsed).certificate.publicKey

\* After `await crypto.importPublicKey(parsedSignature.certificate.publicKey)`.
verifyDocument_keyImported(c) ==
  /\ c.kind = "verify"
  /\ c.pc = "import"
  /\ LET publicKey == KeyOf(c)
         d == Ran(c, "import")
     IN  IF ~CanImport(publicKey)
         THEN SetSt(verify_caught(Cur))
              /\ End(c, d, "InvalidKeyEncoding", verify_caught(Cur))
         ELSE Step(c, [d EXCEPT !.pc = "check",
                                !.handle = Some(ImportPublicKey(publicKey))])
              /\ UNCHANGED << documentSignature, verificationResult,
                              isProcessing, error, downloads >>
  /\ UNCHANGED << now, signingKeyPair, certificate, selectedFile,
                  signatureFile, started >>

\* Mutant: the signature is read back from the component's state.
ParsedOf_shared(c) ==
  IF documentSignature # Null THEN Get(documentSignature) ELSE Get(c.parsed)

\* The arguments handed to DigitalSigner.verifyDocumentSignature: the
\* closure's selectedFile and the local parsedSignature.
DocOf(c) == c.doc

ParsedOf(c) == Get(c.parsed)

\* After `await DigitalSigner.verifyDocumentSignature(selectedFile,
\* parsedSignature, signerPublicKey)` resolved: the hash was recomputed and
\* compared, then the signature checked.
verifyDocument_checked(c) ==
  /\ c.kind = "verify"
  /\ c.pc = "check"
  /\ LET parsedSignature == ParsedOf(c)
         isValid == DigitalSigner_verifyDocumentSignature(DocOf(c),
                       parsedSignature, Get(c.handle))
         hashed == Ran(c, "hash")
         d == IF HashMatches(DocOf(c), parsedSignature)
              THEN Ran(hashed, "ecdsa") ELSE hashed
         post == verify_checked(Cur, isValid, parsedSignature)
     IN  SetSt(post) /\ End(c, d, "Checked", post)
  /\ UNCHANGED << now, signingKeyPair, certificate, selectedFile,
                  signatureFile, started >>

\* The same await rejected (the document could not be read): catch, finally.
verifyDocument_rejected(c) ==
  /\ c.kind = "verify"
  /\ c.pc = "check"
  /\ SetSt(verify_caught(Cur))
  /\ End(c, c, "HashingError", verify_caught(Cur))
  /\ UNCHANGED << now, signingKeyPair, certificate, selectedFile,
                  signatureFile, started >>

\* ------------------------------------------------------- specifications
Environment ==
  \/ Tick
  \/ GenerateKeyPair
  \/ IssueCertificate
  \/ handleFileSelect
  \/ handleSignatureFileSelect

\* The handlers as functions: invoked in any state.
Resume ==
  \/ \E c \in InFlight : signDocument_resolved(c)
  \/ \E c \in InFlight : signDocument_rejected(c)
  \/ \E c \in InFlight : verifyDocument_parsed(c)
  \/ \E c \in InFlight : verifyDocument_certChecked(c)
  \/ \E c \in InFlight : verifyDocument_keyImported(c)
  \/ \E c \in InFlight : verifyDocument_checked(c)
  \/ \E c \in InFlight : verifyDocument_rejected(c)

Next == Environment \/ Resume \/ signDocument \/ verifyDocument

Spec == Init /\ [][Next]_vars

\* The handlers as the rendered buttons invoke them: a button is disabled
\* while its `disabled` expression holds.
SignDisabled ==
  selectedFile = Null \/ certificate = Null \/ signingKeyPair = Null
    \/ isProcessing

VerifyDisabled == selectedFile = Null \/ signatureFile = Null \/ isProcessing

clickSign == ~SignDisabled /\ signDocument

clickVerify == ~VerifyDisabled /\ verifyDocument

NextUI == Environment \/ Resume \/ clickSign \/ clickVerify

SpecUI == Init /\ [][NextUI]_vars

\* =========================================================== ChatScreen
\* Bounds of the chat runs: record-button clicks, and continuations of text
\* and image sends that may be suspended at once.
MaxClicks == 3
MaxPending == 1

\* `file.size > 1024 * 1024`
MaxImageSize == 1048576

Texts == {"", " ", "hi"}
ImageSizes == {MaxImageSize, MaxImageSize + 1}

\* String.prototype.trim on the texts at hand.
Trim(text) == IF text = " " THEN "" ELSE text

\* A sendMessage call, with the pairing and the leaving as they were then.
Sending(kind, size) ==
  [kind |-> kind, paired |-> isPaired, left |-> left, size |-> size]

\* A suspended continuation: `paired` is the isPaired its closure holds.
Waiting(kind, paired, size) == [kind |-> kind, paired |-> paired, size |-> size]

\* The pairing is made or lost (ChatContext).
Pair ==
  /\ ~left
  /\ ~isPaired
  /\ isPaired' = TRUE
  /\ UNCHANGED << left, messageInput, isRecording, audioError,
                  mediaRecorderRef, audioStreamRef, audioChunksRef, acquired,
                  liveStreams, recorders, starts, pending, clicks, sent >>
  /\ UNCHANGED docVars

Unpair ==
  /\ isPaired
  /\ isPaired' = FALSE
  /\ UNCHANGED << left, messageInput, isRecording, audioError,
                  mediaRecorderRef, audioStreamRef, audioChunksRef, acquired,
                  liveStreams, recorders, starts, pending, clicks, sent >>
  /\ UNCHANGED docVars

\* onChange of the message input, which is disabled while not paired.
setMessageInput ==
  /\ ~left
  /\ isPaired
  /\ \E text \in Texts : messageInput' = text
  /\ UNCHANGED << isPaired, left, isRecording, audioError,
                  mediaRecorderRef, audioStreamRef, audioChunksRef, acquired,
                  liveStreams, recorders, starts, pending, clicks, sent >>
  /\ UNCHANGED docVars

\* Up to `await sendMessage(messageInput, 'text')`.
handleSendMessage ==
  /\ ~left
  /\ BagCardinality(pending) < MaxPending
  /\ IF Trim(messageInput) = "" \/ ~isPaired
     THEN UNCHANGED << pending, sent >>
     ELSE /\ sent' = sent \cup {Sending("text", 0)}
          /\ pending' = pending (+) SetToBag({Waiting("text", isPaired, 0)})
  /\ UNCHANGED << isPaired, left, messageInput, isRecording, audioError,
                  mediaRecorderRef, audioStreamRef, audioChunksRef, acquired,
                  liveStreams, recorders, starts, clicks >>
  /\ UNCHANGED docVars

\* sendMessage resolved: setMessageInput('').
handleSendMessage_resolved(w) ==
  /\ w.kind = "text"
  /\ pending' = pending (-) SetToBag({w})
  /\ messageInput' = ""
  /\ UNCHANGED << isPaired, left, isRecording, audioError,
                  mediaRecorderRef, audioStreamRef, audioChunksRef, acquired,
                  liveStreams, recorders, starts, clicks, sent >>
  /\ UNCHANGED docVars

\* sendMessage rejected: the catch logs.
handleSendMessage_rejected(w) ==
  /\ w.kind = "text"
  /\ pending' = pending (-) SetToBag({w})
  /\ UNCHANGED << isPaired, left, messageInput, isRecording, audioError,
                  mediaRecorderRef, audioStreamRef, audioChunksRef, acquired,
                  liveStreams, recorders, starts, clicks, sent >>
  /\ UNCHANGED docVars

\* Up to reader.readAsDataURL(file).
handleImageUpload ==
  /\ ~left
  /\ BagCardinality(pending) < MaxPending
  /\ \E file \in {Null} \cup {Some(size) : size \in ImageSizes} :
       IF file = Null \/ ~isPaired
       THEN UNCHANGED pending
       ELSE IF Get(file) > MaxImageSize
       THEN UNCHANGED pending
       ELSE pending' = pending
                         (+) SetToBag({Waiting("image", isPaired, Get(file))})
  /\ UNCHANGED << isPaired, left, messageInput, isRecording, audioError,
                  mediaRecorderRef, audioStreamRef, audioChunksRef, acquired,
                  liveStreams, recorders, starts, clicks, sent >>
  /\ UNCHANGED docVars

\* reader.onload of handleImageUpload: sendMessage(dataUrl, 'image').
handleImageUpload_onload(w) ==
  /\ w.kind = "image"
  /\ pending' = pending (-) SetToBag({w})
  /\ sent' = sent \cup {Sending("image", w.size)}
  /\ UNCHANGED << isPaired, left, messageInput, isRecording, audioError,
                  mediaRecorderRef, audioStreamRef, audioChunksRef, acquired,
                  liveStreams, recorders, starts, clicks >>
  /\ UNCHANGED docVars


\* ------------------------------------------------------------ recording
\* stopRecording: mediaRecorderRef.current.stop() if it is recording.  The
\* recorder becomes inactive at once; its dataavailable and stop events
\* follow ("stopping": both are due, "flushed": stop is due).
stopRecording(recs) ==
  IF /\ mediaRecorderRef # Null
     /\ Get(mediaRecorderRef) \in DOMAIN recs
     /\ recs[Get(mediaRecorderRef)] = "recording"
  THEN [recs EXCEPT ![Get(mediaRecorderRef)] = "stopping"]
  ELSE recs

\* track.stop() on every track of audioStreamRef.current.
StopTracks(live) ==
  IF audioStreamRef # Null THEN live \ {Get(audioStreamRef)} ELSE live

\* The record button, disabled while not paired: stopRecording, or
\* startRecording up to `await getUserMedia`.
handleAudioRecording ==
  /\ ~left
  /\ isPaired
  /\ clicks < MaxClicks
  /\ clicks' = clicks + 1
  /\ IF isRecording
     THEN /\ recorders' = stopRecording(recorders)
          /\ UNCHANGED << audioError, starts >>
     ELSE IF ~isPaired
     THEN UNCHANGED << recorders, audioError, starts >>
     ELSE /\ audioError' = ""
          /\ starts' = starts + 1
          /\ UNCHANGED recorders
  /\ UNCHANGED << isPaired, left, messageInput, isRecording,
                  mediaRecorderRef, audioStreamRef, audioChunksRef, acquired,
                  liveStreams, pending, sent >>
  /\ UNCHANGED docVars

\* getUserMedia resolved; the recorder is created and started.
startRecording_resolved ==
  /\ starts > 0
  /\ starts' = starts - 1
  /\ LET stream == acquired + 1
     IN  /\ acquired' = stream
         /\ liveStreams' = liveStreams \cup {stream}
         /\ audioStreamRef' = Some(stream)
         /\ audioChunksRef' = {}
         /\ recorders' = recorders @@ (stream :> "recording")
         /\ mediaRecorderRef' = Some(stream)
         /\ isRecording' = TRUE
  /\ UNCHANGED << isPaired, left, messageInput, audioError, pending, clicks,
                  sent >>
  /\ UNCHANGED docVars

\* getUserMedia resolved; `new MediaRecorder(stream, { mimeType })` threw
\* (NotSupportedError): the catch.
startRecording_recorderThrew ==
  /\ starts > 0
  /\ starts' = starts - 1
  /\ LET stream == acquired + 1
     IN  /\ acquired' = stream
         /\ liveStreams' = liveStreams \cup {stream}
         /\ audioStreamRef' = Some(stream)
         /\ audioChunksRef' = {}
  /\ audioError' = "Could not access microphone. Please check your microphone settings."
  /\ isRecording' = FALSE
  /\ UNCHANGED << isPaired, left, messageInput, mediaRecorderRef, recorders,
                  pending, clicks, sent >>
  /\ UNCHANGED docVars

\* getUserMedia rejected: the catch.
startRecording_rejected ==
  /\ starts > 0
  /\ starts' = starts - 1
  /\ audioError' = "Could not access microphone. Please allow microphone access and try again."
  /\ isRecording' = FALSE
  /\ UNCHANGED << isPaired, left, messageInput, mediaRecorderRef,
                  audioStreamRef, audioChunksRef, acquired, liveStreams,
                  recorders, pending, clicks, sent >>
  /\ UNCHANGED docVars

\* recorder.ondataavailable, fired once the recorder was stopped.
recorder_ondataavailable(r) ==
  /\ recorders[r] = "stopping"
  /\ recorders' = [recorders EXCEPT ![r] = "flushed"]
  /\ \E size \in {0, 1} :
       audioChunksRef' = IF size > 0 THEN audioChunksRef \cup {r}
                         ELSE audioChunksRef
  /\ UNCHANGED << isPaired, left, messageInput, isRecording, audioError,
                  mediaRecorderRef, audioStreamRef, acquired, liveStreams,
                  starts, pending, clicks, sent >>
  /\ UNCHANGED docVars

\* recorder.onstop: the blob is handed to a FileReader, then the cleanup.
\* The closure's isPaired is the one startRecording passed its guard with.
recorder_onstop(r) ==
  /\ recorders[r] = "flushed"
  /\ recorders' = [recorders EXCEPT ![r] = "inactive"]
  /\ pending' = IF audioChunksRef # {}
                THEN pending (+) SetToBag({Waiting("audio", TRUE, 0)})
                ELSE pending
  /\ liveStreams' = StopTracks(liveStreams)
  /\ audioStreamRef' = Null
  /\ isRecording' = FALSE
  /\ audioChunksRef' = {}
  /\ UNCHANGED << isPaired, left, messageInput, audioError, mediaRecorderRef,
                  acquired, starts, clicks, sent >>
  /\ UNCHANGED docVars

\* reader.onload of recorder.onstop: `if (audioDataUrl && isPaired)`.
recorder_onstop_onload(w) ==
  /\ w.kind = "audio"
  /\ pending' = pending (-) SetToBag({w})
  /\ sent' = IF w.paired THEN sent \cup {Sending("audio", 0)} ELSE sent
  /\ UNCHANGED << isPaired, left, messageInput, isRecording, audioError,
                  mediaRecorderRef, audioStreamRef, audioChunksRef, acquired,
                  liveStreams, recorders, starts, clicks >>
  /\ UNCHANGED docVars

\* recorder.onerror: stopRecording(), setAudioError.  The browser may have
\* stopped the recorder that failed.
recorder_onerror(r) ==
  /\ recorders[r] = "recording"
  /\ \E stoppedByBrowser \in BOOLEAN :
       LET recs == stopRecording(recorders)
       IN  recorders' = IF stoppedByBrowser /\ recs[r] = "recording"
                        THEN [recs EXCEPT ![r] = "stopping"]
                        ELSE recs
  /\ audioError' = "Recording failed. Please try again."
  /\ UNCHANGED << isPaired, left, messageInput, isRecording,
                  mediaRecorderRef, audioStreamRef, audioChunksRef, acquired,
                  liveStreams, starts, pending, clicks, sent >>
  /\ UNCHANGED docVars

\* handleLeave; what leaveChat does to isPaired is ChatContext's.
handleLeave ==
  /\ ~left
  /\ recorders' = IF isRecording THEN stopRecording(recorders) ELSE recorders
  /\ liveStreams' = StopTracks(liveStreams)
  /\ \E paired \in {isPaired, FALSE} : isPaired' = paired
  /\ left' = TRUE
  /\ UNCHANGED << messageInput, isRecording, audioError, mediaRecorderRef,
                  audioStreamRef, audioChunksRef, acquired, starts, pending,
                  clicks, sent >>
  /\ UNCHANGED docVars

Waiters == BagToSet(pending)

NextChat ==
  \/ Pair
  \/ Unpair
  \/ setMessageInput
  \/ handleSendMessage
  \/ \E w \in Waiters : handleSendMessage_resolved(w)
  \/ \E w \in Waiters : handleSendMessage_rejected(w)
  \/ handleImageUpload
  \/ \E w \in Waiters : handleImageUpload_onload(w)
  \/ handleAudioRecording
  \/ startRecording_resolved
  \/ startRecording_recorderThrew
  \/ startRecording_rejected
  \/ \E r \in DOMAIN recorders : recorder_ondataavailable(r)
  \/ \E r \in DOMAIN recorders : recorder_onstop(r)
  \/ \E w \in Waiters : recorder_onstop_onload(w)
  \/ \E r \in DOMAIN recorders : recorder_onerror(r)
  \/ handleLeave

SpecChat == Init /\ [][NextChat]_vars

\* ================================================================ claims
\* The invocation the step just taken ended, and the time its certificate
\* check ran (the present, if it ended before that check).
L == Get(last)

Ended(kind) == last # Null /\ L.kind = kind

VerifyRan == Ended("verify") /\ L.outcome # "NoFiles"

VerifiedAt == IF L.checkedAt >= 0 THEN L.checkedAt ELSE now

\* The captured signature file is one this session's signDocument emitted
\* for the captured document.
OwnFileForDoc ==
  /\ Get(L.sigFile) \in downloads
  /\ Get(L.sigFile).name = SigName(Get(L.doc))

\* C1 (round trip): a verify call whose signature file was emitted by this
\* session's signDocument for the same document, and whose certificate check
\* ran inside the session certificate's validity window, ends with
\* verificationResult = true, provided the document could be read.
C1_RoundTrip ==
  ( /\ VerifyRan
    /\ OwnFileForDoc
    /\ certificate # Null
    /\ CertTimeOk(Get(certificate), VerifiedAt)
    /\ L.outcome # "HashingError" )
  => (L.outcome = "Checked" /\ verificationResult = "true")

C1_Witness ==
  /\ VerifyRan
  /\ OwnFileForDoc
  /\ certificate # Null
  /\ CertTimeOk(Get(certificate), VerifiedAt)
  /\ L.outcome = "Checked"
  /\ verificationResult = "true"

\* The file is a valid signature file for a document of another content:
\* it decodes, its certificate was valid when checked, and its signature
\* verifies over its stored hash under the certificate's key.
ValidForOtherDoc ==
  /\ L.parsed # Null
  /\ verifyCertificate(Get(L.parsed).certificate, VerifiedAt)
  /\ EcdsaVerify(ImportPublicKey(Get(L.parsed).certificate.publicKey),
                 Get(L.parsed).documentHash, Get(L.parsed).signature)
  /\ ~HashMatches(Get(L.doc), Get(L.parsed))

\* C2 (tamper detection): a verify call given a signature file valid for
\* another document ends in the document check, at the hash comparison and
\* before the signature check, with verificationResult = false; and a call
\* that ends in the document check with true recomputed a hash equal to the
\* stored documentHash.
C2_TamperDetected ==
  /\ (VerifyRan /\ ValidForOtherDoc /\ L.outcome # "HashingError")
       => /\ L.outcome = "Checked"
          /\ L.trace = << "decode", "certificate", "import", "hash" >>
          /\ verificationResult = "false"
  /\ (VerifyRan /\ L.outcome = "Checked" /\ verificationResult = "true")
       => HashMatches(Get(L.doc), Get(L.parsed))

C2_Witness ==
  /\ VerifyRan
  /\ ValidForOtherDoc
  /\ L.outcome = "Checked"
  /\ verificationResult = "false"

\* C3 (expiry): a verify call whose file decodes to a certificate with
\* expiresAt before the time of the certificate check ends at that check,
\* with verificationResult = false and the certificate message, whatever the
\* hash and the signature are.
C3_ExpiryEnforced ==
  ( /\ VerifyRan
    /\ L.parsed # Null
    /\ Get(L.parsed).certificate.expiresAt < VerifiedAt )
  => /\ L.outcome = "CertificateInvalid"
     /\ verificationResult = "false"
     /\ error = "Invalid or expired certificate"

\* An expired certificate on a file whose hash and signature are in order.
C3_Witness ==
  /\ VerifyRan
  /\ L.parsed # Null
  /\ Get(L.parsed).certificate.expiresAt < VerifiedAt
  /\ DigitalSigner_verifyDocumentSignature(Get(L.doc), Get(L.parsed),
        ImportPublicKey(Get(L.parsed).certificate.publicKey))
  /\ L.outcome = "CertificateInvalid"

\* The signature was made with a key other than the one the certificate
\* embeds; certificate and hash are in order.
CrossKey ==
  /\ L.parsed # Null
  /\ verifyCertificate(Get(L.parsed).certificate, VerifiedAt)
  /\ HashMatches(Get(L.doc), Get(L.parsed))
  /\ Get(L.parsed).signature.by
       # ImportPublicKey(Get(L.parsed).certificate.publicKey)

\* C4 (cross-key rejection): a verify call on such a file ends in the
\* signature check with verificationResult = false.
C4_CrossKeyRejected ==
  (VerifyRan /\ CrossKey /\ L.outcome # "HashingError")
    => (L.outcome = "Checked" /\ verificationResult = "false")

C4_Witness ==
  /\ VerifyRan
  /\ CrossKey
  /\ L.outcome = "Checked"
  /\ verificationResult = "false"

\* A verify call whose signature file does not decode ends as FileMalformed
\* after the decode stage alone, with the file-format message.
MalformedStopsAtDecode ==
  (VerifyRan /\ parseSignatureFile(Get(L.sigFile)) = Null)
    => /\ L.outcome = "FileMalformed"
       /\ L.trace = << "decode" >>
       /\ error = "Invalid signature file format"

\* C5 (malformed input): a verify call whose signature file does not decode
\* ends as FileMalformed after the decode stage alone, and no success is
\* indicated when it has ended.
C5_MalformedNoSuccess ==
  /\ MalformedStopsAtDecode
  /\ (VerifyRan /\ parseSignatureFile(Get(L.sigFile)) = Null)
       => verificationResult # "true"

\* The failures a verify call can meet after the file has decoded.
FailureCauses ==
  {"DocumentTampered", "SignatureInvalid", "CertificateExpired",
   "CertificateMalformed"}

\* C6 (distinguishable outcomes): two verify calls that failed for different
\* reasons (hash mismatch, invalid signature, expired certificate, malformed
\* certificate) were not given the same report.
C6_ReasonsDistinct ==
  \A r1 \in reported, r2 \in reported :
    (r1[1] \in FailureCauses /\ r2[1] \in FailureCauses /\ r1[1] # r2[1])
      => r1[2] # r2[2]

VerifyOutcomes ==
  {"FileMalformed", "CertificateInvalid", "InvalidKeyEncoding",
   "HashingError", "Checked"}

UnimportableKey ==
  L.parsed # Null /\ ~CanImport(Get(L.parsed).certificate.publicKey)

SignRefused == Ended("sign") /\ (L.key = Null \/ L.cert = Null)

\* C8 (sign precondition): a sign call made without the session key or the
\* session certificate ends at once with a reported error (the key or the
\* certificate message when a document is selected), starts no invocation,
\* and leaves the stored signature, the verification result, the processing
\* flag and the emitted files as they were.
C8_SignPrecondition ==
  SignRefused =>
    /\ L.outcome \in {"NoFile", "KeyUnavailable", "CertUnavailable"}
    /\ error # ""
    /\ (L.doc # Null /\ L.key = Null)
         => /\ L.outcome = "KeyUnavailable"
            /\ error = "Signing key not available. Please refresh and try again."
    /\ (L.doc # Null /\ L.key # Null)
         => /\ L.outcome = "CertUnavailable"
            /\ error = "Digital certificate not available. Please ensure you have set a username."
    /\ documentSignature = L.before.documentSignature
    /\ verificationResult = L.before.verificationResult
    /\ isProcessing = L.before.isProcessing
    /\ downloads = L.before.downloads
    /\ BagCardinality(calls) = L.pending

\* The key is missing while a signature from an earlier verification is held.
C8_Witness ==
  /\ SignRefused
  /\ L.doc # Null
  /\ L.key = Null
  /\ L.before.documentSignature # Null
  /\ L.outcome = "KeyUnavailable"

\* A record with its four fields, all from one signing call of this session.
FromOneCall(sig) ==
  /\ DOMAIN sig = SigFields
  /\ DOMAIN sig.certificate = CertFields
  /\ certificate # Null
  /\ \E d \in Docs, t \in 0..MaxTime, n \in Nonces :
       sig = DigitalSigner_signDocument(d, SessionKey, Get(certificate), t, n)

\* C9 (sign is atomic): the stored signature, when there is one, has its
\* four fields; every emitted file decodes to a record whose four fields
\* come from one signing call; a sign call that succeeds stores and emits
\* exactly the record it was returned; a sign call that fails stores and
\* emits nothing.
C9_SignAtomic ==
  /\ documentSignature # Null => DOMAIN Get(documentSignature) = SigFields
  /\ \A f \in downloads :
       /\ parseSignatureFile(f) # Null
       /\ FromOneCall(Get(parseSignatureFile(f)))
  /\ (Ended("sign") /\ L.outcome = "Signed")
       => /\ L.returned # Null
          /\ FromOneCall(Get(L.returned))
          /\ documentSignature = L.returned
          /\ downloads = L.before.downloads
               \cup {FileOf(SigName(Get(L.doc)),
                            createSignatureFile(Get(L.returned)))}
  /\ (Ended("sign") /\ L.outcome # "Signed")
       => /\ documentSignature = L.before.documentSignature
          /\ downloads = L.before.downloads

\* A sign call failed midway while an earlier signature was held.
C9_Witness ==
  /\ Ended("sign")
  /\ L.outcome = "SignFailed"
  /\ L.before.documentSignature # Null
  /\ downloads # {}

\* What verifyDocument reports for a document and a signature file when it
\* runs with nothing else in flight and checks the certificate at time t.
\* "-" stands for a piece of state the path does not write.
VerifyAlone(doc, file, t) ==
  LET p == parseSignatureFile(file)
  IN  IF p = Null
      THEN [outcome |-> "FileMalformed", result |-> "-",
            error |-> "Invalid signature file format"]
      ELSE IF ~verifyCertificate(Get(p).certificate, t)
      THEN [outcome |-> "CertificateInvalid", result |-> "false",
            error |-> "Invalid or expired certificate"]
      ELSE [outcome |-> "Checked",
            result |-> ToResult(DigitalSigner_verifyDocumentSignature(doc,
                         Get(p), ImportPublicKey(Get(p).certificate.publicKey))),
            error |-> "-"]

\* C10 (no interference): under every interleaving, a verify call that ends
\* reports what it reports when run alone on the document and file it
\* captured, and a sign call that ends stores and emits the signature that
\* DigitalSigner.signDocument returns for the document, key and certificate
\* it captured.
C10_NoInterference ==
  /\ (VerifyRan /\ L.outcome # "HashingError")
       => LET a == VerifyAlone(Get(L.doc), Get(L.sigFile), VerifiedAt)
          IN  /\ L.outcome = a.outcome
              /\ a.result # "-" => verificationResult = a.result
              /\ a.error # "-" => error = a.error
              /\ a.outcome = "Checked"
                   => documentSignature = parseSignatureFile(Get(L.sigFile))
  /\ (Ended("sign") /\ L.outcome = "Signed")
       => /\ \E n \in Nonces :
               L.returned = Some(DigitalSigner_signDocument(Get(L.doc),
                                   Get(L.key), Get(L.cert), now, n))
          /\ documentSignature = L.returned
          /\ FileOf(SigName(Get(L.doc)), createSignatureFile(Get(L.returned)))
               \in downloads

\* A verify call ended while a sign call over another document was suspended.
C10_Witness ==
  /\ VerifyRan
  /\ L.outcome = "Checked"
  /\ verificationResult = "true"
  /\ \E c \in InFlight : c.kind = "sign" /\ c.doc # Get(L.doc)

\* Every signature this session produced embeds the session certificate.
EmbedsSessionCert ==
  /\ \A f \in downloads :
       /\ certificate # Null
       /\ Get(parseSignatureFile(f)).certificate = Get(certificate)
  /\ (Ended("sign") /\ L.outcome = "Signed")
       => /\ certificate # Null
          /\ Get(documentSignature).certificate = Get(certificate)
          /\ Get(documentSignature).signature.by = Get(signingKeyPair)

\* Once written, the keypair and the certificate keep their value.
IdentityKept ==
  /\ signingKeyPair # Null => signingKeyPair' = signingKeyPair
  /\ certificate # Null => certificate' = certificate

CheckedCert == Get(L.parsed).certificate

InWindow ==
  /\ CheckedCert.subject # ""
  /\ CheckedCert.publicKey.curve = "P-256"
  /\ CheckedCert.publicKey.point \in Keys
  /\ CheckedCert.issuedAt <= L.checkedAt
  /\ L.checkedAt <= CheckedCert.expiresAt

C12_AcceptedAtEnds ==
  /\ VerifyRan
  /\ L.parsed # Null
  /\ L.checkedAt = CheckedCert.issuedAt
  /\ L.checkedAt = CheckedCert.expiresAt
  /\ L.outcome = "Checked"

\* The four stages of the design, in their order, and the ones a call ran.
FourStages == << "decode", "certificate", "hash", "ecdsa" >>

StagesRun == SelectSeq(L.trace, LAMBDA stage : stage # "import")

\* The first of the four stages that fails for the captured inputs, or
\* "none".
FirstFailing ==
  LET p == parseSignatureFile(Get(L.sigFile))
  IN  IF p = Null THEN "decode"
      ELSE IF ~verifyCertificate(Get(p).certificate, L.checkedAt)
      THEN "certificate"
      ELSE IF ~HashMatches(Get(L.doc), Get(p)) THEN "hash"
      ELSE IF ~EcdsaVerify(ImportPublicKey(Get(p).certificate.publicKey),
                           Get(p).documentHash, Get(p).signature)
      THEN "ecdsa"
      ELSE "none"

UpTo(stage) ==
  SubSeq(FourStages, 1,
         CHOOSE i \in 1..Len(FourStages) : FourStages[i] = stage)

\* C13 (short circuit): the stages a verify call ran are decode,
\* certificate, hash, signature in that order, up to and including the first
\* one that fails and none after it; the call reports true only when it ran
\* all four and none failed, and a failure gives the failing stage's outcome.
C13_ShortCircuit ==
  (VerifyRan /\ L.outcome # "HashingError")
    => /\ StagesRun = (IF FirstFailing = "none" THEN FourStages
                       ELSE UpTo(FirstFailing))
       /\ (L.outcome = "Checked" /\ verificationResult = "true")
            <=> FirstFailing = "none"
       /\ FirstFailing = "decode" <=> L.outcome = "FileMalformed"
       /\ FirstFailing = "certificate" <=> L.outcome = "CertificateInvalid"
       /\ FirstFailing \in {"hash", "ecdsa"}
            => (L.outcome = "Checked" /\ verificationResult = "false")

\* A call stopped by the certificate stage on a file whose hash and
\* signature would have passed.
C13_Witness ==
  /\ VerifyRan
  /\ FirstFailing = "certificate"
  /\ StagesRun = << "decode", "certificate" >>
  /\ HashMatches(Get(L.doc), Get(L.parsed))
  /\ L.outcome = "CertificateInvalid"

\* C14 (hash before key): in a verify call the certificate's public key is
\* imported only after the document was hashed and the hash compared equal
\* to documentHash, so a call on a tampered document imports no key.
C14_HashBeforeKey ==
  VerifyRan =>
    \A i \in 1..Len(L.trace) :
      L.trace[i] = "import"
        => /\ \E j \in 1..(i - 1) : L.trace[j] = "hash"
           /\ HashMatches(Get(L.doc), Get(L.parsed))

\* The verification panel is rendered.
ResultShown == verificationResult # "null"

\* Verifying the selected document against the selected signature file
\* succeeds at some time up to the present.
SelectedPairVerifies ==
  /\ selectedFile # Null
  /\ signatureFile # Null
  /\ LET p == parseSignatureFile(Get(signatureFile))
     IN  /\ p # Null
         /\ \E t \in 0..now : verifyCertificate(Get(p).certificate, t)
         /\ DigitalSigner_verifyDocumentSignature(Get(selectedFile), Get(p),
              ImportPublicKey(Get(p).certificate.publicKey))

\* C15 (displayed verification is current): whenever a verification result
\* is shown, a shown success is the outcome of verifying the selected
\* document against the selected signature file, and the signer, timestamp
\* and hash shown with the result are those of the selected signature file.
C15_DisplayedCurrent ==
  ResultShown =>
    /\ verificationResult = "true" => SelectedPairVerifies
    /\ documentSignature # Null
         => /\ signatureFile # Null
            /\ documentSignature = parseSignatureFile(Get(signatureFile))

\* The 'Document signed successfully' panel is rendered.
SignedShown == documentSignature # Null /\ verificationResult = "null"

\* C16 (displayed signing success is current): whenever the signing success
\* is shown, the signature shown is one over the selected document; a sign
\* call that ends in success while the success is shown was made on the
\* selected document; and no success is shown when a sign call has failed.
C16_SignedCurrent ==
  /\ SignedShown
       => /\ selectedFile # Null
          /\ HashMatches(Get(selectedFile), Get(documentSignature))
  /\ (SignedShown /\ Ended("sign") /\ L.outcome = "Signed")
       => L.doc = selectedFile
  /\ (Ended("sign") /\ L.outcome = "SignFailed") => ~SignedShown

\* C17 (sent only while paired): every sendMessage call, for text, image or
\* audio, was made while the session was paired and before handleLeave
\* called leaveChat, and no image above 1 MiB was sent.
C17_SentWhilePaired ==
  \A m \in sent : m.paired /\ ~m.left /\ m.size <= MaxImageSize

\* C18 (microphone release): at most one stream is live, and none is live
\* when isRecording is false and no startRecording call is in flight.
C18_MicrophoneReleased ==
  /\ Cardinality(liveStreams) <= 1
  /\ (~isRecording /\ starts = 0) => liveStreams = {}

=============================================================================
